---- MODULE Spec2Model ----
(***************************************************************************)
(* Model of the Paper local ingress proxy (paper-proxy/lib/proxy.py):      *)
(* ProxyServer correlates concurrent HTTP requests (handle_request) with   *)
(* replies received on the control WebSocket (handle_control_ws) through   *)
(* the pending_requests table of futures.                                  *)
(*                                                                         *)
(* Every action is one run of a coroutine between two suspension points    *)
(* (await); asyncio runs such a run without interleaving.                  *)
(*                                                                         *)
(* HostsSpec is the HostsManager of paper-proxy/lib/hosts.py on its own:   *)
(* install, add_domain and remove rewrite the managed block of the hosts   *)
(* file, whose text is a sequence of words and line ends; the process may  *)
(* gain or lose the right to write the file, and exits through atexit.     *)
(***************************************************************************)
EXTENDS Integers, Sequences, FiniteSets, TLC

(* ------------------------------ bounds -------------------------------- *)

\* Number of HTTP requests handled in a run (each gets a fresh uuid4 id).
MaxReq == 2

\* Number of control WebSocket connections accepted in a run.
MaxWs == 2

ReqIds == 1..MaxReq
WsIds == 1..MaxWs

(* --------------------------- values ----------------------------------- *)

\* self.control_ws = None
None == 0

\* A reply key that is not present in the JSON object: dict.get gives None for
\* "id" (a number here) and for "headers" and "body" (texts here).
Absent == 0
AbsentText == "None"

\* A correlation id that no handle_request call of this run generated.
UnknownId == MaxReq + 1

NoData ==
  [shape |-> "none", id |-> Absent, type |-> "", domain |-> "",
   status |-> Absent, headers |-> AbsentText, body |-> AbsentText]

\* asyncio.Future(): state is pending, result (set_result) or cancelled.
\* NoFuture stands for the future of a call that has none: before line 111
\* and after the call returned, when nothing refers to it any more.
NewFuture == [state |-> "pending", data |-> NoData]
NoFuture == [state |-> "none", data |-> NoData]

NoResp == [status |-> 0, headers |-> "", body |-> ""]

\* The domains HostsManager starts with.
DefaultDomains == {"paper", "blog.paper", "shop.paper", "test.paper"}

(* ---------------------------- inputs ---------------------------------- *)

\* Host headers, as the pieces startswith/endswith look at.
Hosts ==
  { <<"blog", ".paper">>, <<"localhost", ":8080">>, <<"127.0.0.1", ":8080">>,
    <<"192.168.1.5", ":8080">>, <<"example", ".com">>, <<>> }

Paths == {"/", "/index.html"}

\* status, headers and body of a reply; Absent where the key is missing.  The
\* headers and the body, when present, are values web.Response accepts.
GoodPayload == [status |-> 404, headers |-> "h", body |-> "a"]
BarePayload == [status |-> Absent, headers |-> AbsentText, body |-> AbsentText]
Payloads == {GoodPayload, BarePayload}

\* Domains a register_domain command may name.
CommandDomains == {"blog.paper", "new.paper"}

\* Frames the receive loop can get.  shape: "binary" is a frame whose type is
\* not TEXT; "unparsable" is text json.loads rejects; "nonobject" is JSON that
\* is no object; "object" is a JSON object with the keys given.
Reply(i, p) ==
  [shape |-> "object", id |-> i, type |-> "", domain |-> "",
   status |-> p.status, headers |-> p.headers, body |-> p.body]

ObjectMsgs ==
  { Reply(i, p) : i \in ReqIds, p \in Payloads }
    \cup { Reply(Absent, GoodPayload), Reply(UnknownId, GoodPayload) }

CommandMsgs ==
  { [shape |-> "object", id |-> Absent, type |-> "register_domain", domain |-> d,
     status |-> Absent, headers |-> AbsentText, body |-> AbsentText] :
       d \in CommandDomains \ DefaultDomains }

OtherMsgs ==
  { [shape |-> s, id |-> Absent, type |-> "", domain |-> "",
     status |-> Absent, headers |-> AbsentText, body |-> AbsentText] :
       s \in {"binary", "unparsable", "nonobject"} }

Msgs == ObjectMsgs \cup CommandMsgs \cup OtherMsgs

(* --------------------------- hosts file ------------------------------- *)

\* The text of the hosts file is a sequence of tokens: the words of a line
\* (a blank between two words is understood), and NL for each "\n".
NL == "\n"

PAPER_MARKER_START == "### PAPER-START ###"
PAPER_MARKER_END == "### PAPER-END ###"
LOOPBACK == "127.0.0.1"

\* Most lines an initial hosts file has.
MaxLines == 3

\* What a line of an initial hosts file can be: two entries of the user and
\* the two markers (a block left by an earlier run, whole or not).
LineTexts ==
  { <<LOOPBACK, "localhost">>, <<"10.0.0.1", "nas">>,
    <<PAPER_MARKER_START>>, <<PAPER_MARKER_END>> }

\* f.writelines(lines): the lines one after the other.
RECURSIVE writelines(_)
writelines(lines) ==
  IF lines = <<>> THEN <<>> ELSE Head(lines) \o writelines(Tail(lines))

\* The initial contents: up to MaxLines lines, the last one with or without
\* its "\n".
InitialFiles ==
  { writelines([i \in 1..n |-> IF i = n /\ ~t THEN ls[i] ELSE ls[i] \o <<NL>>]) :
      <<n, ls, t>> \in
        { x \in (0..MaxLines) \X (UNION {[1..k -> LineTexts] : k \in 0..MaxLines})
                  \X BOOLEAN : DOMAIN x[2] = 1..x[1] } }

\* Position of the first "\n" of a text, 0 when it has none.
FirstNL(content) ==
  IF \E i \in 1..Len(content) : content[i] = NL
  THEN CHOOSE i \in 1..Len(content) :
         content[i] = NL /\ \A j \in 1..(i - 1) : content[j] # NL
  ELSE 0

\* content.splitlines(keepends=True): every line keeps its "\n"; only the
\* last line can be without one; the empty text has no line.
RECURSIVE splitlines(_)
splitlines(content) ==
  IF content = <<>> THEN <<>>
  ELSE IF FirstNL(content) = 0 THEN <<content>>
  ELSE <<SubSeq(content, 1, FirstNL(content))>>
         \o splitlines(SubSeq(content, FirstNL(content) + 1, Len(content)))

\* f.readlines(): the same lines, for a text whose only line ends are "\n".
readlines(content) == splitlines(content)

\* `marker in line`
Contains(marker, line) == \E i \in 1..Len(line) : line[i] = marker

\* line.endswith('\n')
EndsWithNL(line) == Len(line) > 0 /\ line[Len(line)] = NL

\* The loop over the lines, from line i on, skip being the flag of the loop:
\* a line holding the start marker sets it, a line holding the end marker
\* clears it, and neither these lines nor a line met while it is set is kept.
RECURSIVE KeptFrom(_, _, _)
KeptFrom(lines, i, skip) ==
  IF i > Len(lines) THEN <<>>
  ELSE IF Contains(PAPER_MARKER_START, lines[i]) THEN KeptFrom(lines, i + 1, TRUE)
  ELSE IF Contains(PAPER_MARKER_END, lines[i]) THEN KeptFrom(lines, i + 1, FALSE)
  ELSE IF skip THEN KeptFrom(lines, i + 1, skip)
  ELSE <<lines[i]>> \o KeptFrom(lines, i + 1, skip)

\* A filter that keeps every line: the old block stays in the file.
InstallKeepsAll(lines) == lines

\* new_lines of install().
InstallKept(lines) == KeptFrom(lines, 1, FALSE)

\* new_lines of remove().
RemoveKept(lines) == KeptFrom(lines, 1, FALSE)

\* found of remove().
Found(lines) == \E i \in 1..Len(lines) : Contains(PAPER_MARKER_START, lines[i])

\* The names the model uses, in the order of Python's str comparison.
DomainOrder == <<"blog.paper", "new.paper", "paper", "shop.paper", "test.paper">>

\* sorted(list(self.domains))
sorted(doms) == SelectSeq(DomainOrder, LAMBDA d : d \in doms)

\* sep.join(lines)
RECURSIVE join(_, _)
join(sep, lines) ==
  IF lines = <<>> THEN <<>>
  ELSE IF Len(lines) = 1 THEN Head(lines)
  ELSE Head(lines) \o <<sep>> \o join(sep, Tail(lines))

\* f"127.0.0.1 {domain}"
EntryLine(domain) == <<LOOPBACK, domain>>

\* _generate_block(): the start marker, one line per domain in sorted order,
\* the end marker, joined by "\n" and ended by "\n".
generate_block(doms) ==
  join(NL, <<<<PAPER_MARKER_START>>>>
             \o [i \in 1..Len(sorted(doms)) |-> EntryLine(sorted(doms)[i])]
             \o <<<<PAPER_MARKER_END>>>>) \o <<NL>>

\* What the two `with open` blocks of install() do to a text that can be
\* written.  open(..., 'w') empties the file; with no line to keep,
\* new_lines[-1] raises IndexError after that and nothing more is written.
InstallWrite(content, doms) ==
  LET new_lines == InstallKept(splitlines(content))
  IN IF new_lines = <<>>
     THEN [ok |-> FALSE, text |-> <<>>]
     ELSE [ok |-> TRUE,
           text |-> writelines(new_lines)
                      \o (IF EndsWithNL(new_lines[Len(new_lines)]) THEN <<>> ELSE <<NL>>)
                      \o generate_block(doms)]

(* ----------------------------- state ---------------------------------- *)

VARIABLES
  control_ws,   \* ProxyServer.control_ws: None or the connection installed last
  pending_requests,  \* keys of ProxyServer.pending_requests
  fut,          \* the future of each handle_request call that is running
  pc,           \* where each handle_request call is
  sentOn,       \* the connection each running call handed its payload to
  resp,         \* the web.Response each handle_request call returned
  wsOpen,       \* connections whose handle_control_ws is in its receive loop
  nextWs,       \* connections accepted so far
  domains,      \* HostsManager.domains
  last,         \* what the frame handled by the last step was to the table
                \* (see Classify); "" after any other step
  file,         \* the text of HostsManager.HOSTS_FILE
  installed,    \* HostsManager.installed
  registered,   \* HostsManager._registered: remove is registered with atexit
  writable,     \* whether the process may open the hosts file for writing
  phase,        \* "main" before the install() of main(), "serving" after it,
                \* "install_flush" inside the flush_dns() of install(),
                \* "remove_flush" inside the flush_dns() of remove(),
                \* "exit_flush" inside that of the remove() run by atexit,
                \* "exited" when the process is gone
  hlast,        \* the last HostsManager call: its name, argument and outcome,
                \* and whether the call before it was the same call
  before        \* the text of the hosts file when that call began

proxyVars == <<control_ws, pending_requests, fut, pc, sentOn, resp, wsOpen, nextWs, last>>
hostsVars == <<file, installed, registered, writable, phase, hlast, before>>
vars == <<control_ws, pending_requests, fut, pc, sentOn, resp, wsOpen, nextWs, domains, last,
          file, installed, registered, writable, phase, hlast, before>>

\* No HostsManager call yet.
NoCall == [op |-> "", arg |-> "", ret |-> "", again |-> FALSE]

\* ProxyServer.__init__
ProxyInit ==
  /\ control_ws = None
  /\ pending_requests = {}
  /\ fut = [r \in ReqIds |-> NoFuture]
  /\ pc = [r \in ReqIds |-> "idle"]
  /\ sentOn = [r \in ReqIds |-> None]
  /\ resp = [r \in ReqIds |-> NoResp]
  /\ wsOpen = {}
  /\ nextWs = 0
  /\ domains = DefaultDomains
  /\ last = ""

\* The proxy is serving as main() leaves it when the process may not write
\* the hosts file: install() was refused and has logged its warning, the file
\* holds what it held (the localhost line).  No action of the proxy touches
\* the hosts file after that.
Init ==
  /\ ProxyInit
  /\ file = <<LOOPBACK, "localhost", NL>>
  /\ installed = FALSE
  /\ registered = FALSE
  /\ writable = FALSE
  /\ phase = "serving"
  /\ hlast = NoCall
  /\ before = <<>>

(* ------------------------ handle_request ------------------------------ *)

startswith(host, prefix) == Len(host) > 0 /\ host[1] = prefix
endswith(host, suffix) == Len(host) > 0 /\ host[Len(host)] = suffix

\* The "simple health check": a request for "/" under a Host that is neither a
\* .paper name nor the local machine is answered without being forwarded.
IsHealthCheck(host, path) ==
  /\ ~endswith(host, ".paper")
  /\ ~startswith(host, "localhost")
  /\ ~startswith(host, "127.0.0.1")
  /\ path = "/"

HealthResponse ==
  [status |-> 200, headers |-> AbsentText,
   body |-> "Paper Proxy Running. Connect WebVM to /_paper_control"]
NotConnectedResponse ==
  [status |-> 503, headers |-> AbsentText,
   body |-> "WebVM not connected. Please open the Master Tab."]
CancelledResponse ==
  [status |-> 504, headers |-> AbsentText,
   body |-> "Request Cancelled (WebVM disconnected)"]
\* str(e) of the AttributeError of None.send_json, and of what send_json
\* raises on a connection it cannot write to.
NoSendJson == "'NoneType' object has no attribute 'send_json'"
SendErrors == {"Cannot write to closing transport"}

\* web.Response(text=f"Internal Proxy Error: {e}", status=500)
ProxyErrorResponse(e) ==
  [status |-> 500, headers |-> AbsentText, body |-> "Internal Proxy Error: " \o e]

\* web.Response(body=data.get('body'), status=data.get('status', 200),
\* headers=data.get('headers'))
RelayResponse(data) ==
  [status |-> IF data.status = Absent THEN 200 ELSE data.status,
   headers |-> data.headers,
   body |-> data.body]

\* The response `await fut` leads to once the future is done.
AwaitOutcome(f) ==
  IF f.state = "cancelled" THEN CancelledResponse ELSE RelayResponse(f.data)

\* return ... finally: self.pending_requests.pop(req_id, None).  The call's
\* locals (fut, payload) are gone with it.
Return(r, response) ==
  /\ pc' = [pc EXCEPT ![r] = "returned"]
  /\ resp' = [resp EXCEPT ![r] = response]
  /\ pending_requests' = pending_requests \ {r}
  /\ fut' = [fut EXCEPT ![r] = NoFuture]
  /\ sentOn' = [sentOn EXCEPT ![r] = None]

\* Submit with the table entry made before the connection is looked at: the
\* 503 leaves the entry behind.
SubmitRegistersFirst(r, host, path) ==
  /\ UNCHANGED hostsVars
  /\ pc[r] = "idle"
  /\ \A q \in ReqIds : q < r => pc[q] # "idle"
  /\ IF IsHealthCheck(host, path)
     THEN /\ pc' = [pc EXCEPT ![r] = "returned"]
          /\ resp' = [resp EXCEPT ![r] = HealthResponse]
          /\ UNCHANGED <<pending_requests, fut>>
     ELSE /\ fut' = [fut EXCEPT ![r] = NewFuture]
          /\ pending_requests' = pending_requests \cup {r}
          /\ IF control_ws = None
             THEN /\ pc' = [pc EXCEPT ![r] = "returned"]
                  /\ resp' = [resp EXCEPT ![r] = NotConnectedResponse]
             ELSE /\ pc' = [pc EXCEPT ![r] = "reading"]
                  /\ UNCHANGED resp
  /\ last' = ""
  /\ UNCHANGED <<control_ws, sentOn, wsOpen, nextWs, domains>>

\* handle_request up to its first await: the health check, the 503 when no
\* connection is installed, else uuid4, the future and the table entry.
Submit(r, host, path) ==
  /\ UNCHANGED hostsVars
  /\ pc[r] = "idle"
  /\ \A q \in ReqIds : q < r => pc[q] # "idle"
  /\ IF IsHealthCheck(host, path)
     THEN /\ pc' = [pc EXCEPT ![r] = "returned"]
          /\ resp' = [resp EXCEPT ![r] = HealthResponse]
          /\ last' = ""
          /\ UNCHANGED <<pending_requests, fut>>
     ELSE IF control_ws = None
     THEN /\ pc' = [pc EXCEPT ![r] = "returned"]
          /\ resp' = [resp EXCEPT ![r] = NotConnectedResponse]
          /\ last' = ""
          /\ UNCHANGED <<pending_requests, fut>>
     ELSE /\ fut' = [fut EXCEPT ![r] = NewFuture]
          /\ pending_requests' = pending_requests \cup {r}
          /\ pc' = [pc EXCEPT ![r] = "reading"]
          /\ last' = ""
          /\ UNCHANGED resp
  /\ UNCHANGED <<control_ws, sentOn, wsOpen, nextWs, domains>>

\* `await request.read()` is over; the payload is built and send_json is called
\* on whatever self.control_ws is now.  None has no send_json: AttributeError,
\* caught by except Exception.
ReadBody(r) ==
  /\ UNCHANGED hostsVars
  /\ pc[r] = "reading"
  /\ IF control_ws = None
     THEN /\ Return(r, ProxyErrorResponse(NoSendJson))
          /\ last' = ""
     ELSE /\ pc' = [pc EXCEPT ![r] = "sending"]
          /\ sentOn' = [sentOn EXCEPT ![r] = control_ws]
          /\ last' = ""
          /\ UNCHANGED <<resp, pending_requests, fut>>
  /\ UNCHANGED <<control_ws, wsOpen, nextWs, domains>>

\* send_json returned; `await fut` does not suspend when the future is done.
SendDone(r) ==
  /\ UNCHANGED hostsVars
  /\ pc[r] = "sending"
  /\ IF fut[r].state = "pending"
     THEN /\ pc' = [pc EXCEPT ![r] = "waiting"]
          /\ last' = ""
          /\ UNCHANGED <<resp, pending_requests, fut, sentOn>>
     ELSE /\ Return(r, AwaitOutcome(fut[r]))
          /\ last' = ""
  /\ UNCHANGED <<control_ws, wsOpen, nextWs, domains>>

\* send_json raised e (the transport is closing, say, whether or not the
\* receive loop of that connection has ended): except Exception, 500.
SendFail(r, e) ==
  /\ UNCHANGED hostsVars
  /\ pc[r] = "sending"
  /\ Return(r, ProxyErrorResponse(e))
  /\ last' = ""
  /\ UNCHANGED <<control_ws, wsOpen, nextWs, domains>>

\* Task.cancel() on the task of call r, and the run of the task that it
\* leads to.  A task suspended in `await fut` on a pending future: cancel()
\* cancels that future at once and the task runs later (Resume), the id
\* staying in the table until then.  Otherwise the CancelledError is raised
\* in the coroutine when the task runs next, which is this step.  In
\* `await request.read()` it is no Exception (line 117) and the try/finally
\* of lines 129-144 is not entered yet: the call ends without a response and
\* without the pop.  In send_json, or in `await fut` on a future that is
\* done, it is caught by except asyncio.CancelledError: 504, and the finally
\* pops.
Cancel(r) ==
  /\ UNCHANGED hostsVars
  /\ pc[r] \in {"reading", "sending", "waiting"}
  /\ IF pc[r] = "reading"
     THEN /\ pc' = [pc EXCEPT ![r] = "cancelled"]
          /\ UNCHANGED <<resp, pending_requests, fut, sentOn>>
     ELSE IF pc[r] = "waiting" /\ fut[r].state = "pending"
     THEN /\ fut' = [fut EXCEPT ![r].state = "cancelled"]
          /\ UNCHANGED <<pc, resp, pending_requests, sentOn>>
     ELSE Return(r, CancelledResponse)
  /\ last' = ""
  /\ UNCHANGED <<control_ws, wsOpen, nextWs, domains>>

\* The task suspended in `await fut` is woken: the future has a result or was
\* cancelled.
Resume(r) ==
  /\ UNCHANGED hostsVars
  /\ pc[r] = "waiting"
  /\ fut[r].state # "pending"
  /\ Return(r, AwaitOutcome(fut[r]))
  /\ last' = ""
  /\ UNCHANGED <<control_ws, wsOpen, nextWs, domains>>

(* ----------------------- handle_control_ws ---------------------------- *)

\* The oldest request whose future is still pending in the table (0 if none).
OldestWaiting ==
  IF \E r \in pending_requests : fut[r].state = "pending"
  THEN CHOOSE r \in pending_requests :
         /\ fut[r].state = "pending"
         /\ \A q \in pending_requests : fut[q].state = "pending" => r <= q
  ELSE Absent

\* Dispatch without the id: a frame resolves the request that waits longest.
DispatchIgnoresId(m) ==
  IF m.shape # "object" \/ m.id = Absent THEN Absent ELSE OldestWaiting

\* Dispatch without the done() test of line 82: a second reply overwrites.
DispatchNoDoneCheck(m) ==
  IF m.shape # "object" THEN Absent
  ELSE IF m.id = Absent \/ m.id \notin pending_requests THEN Absent
  ELSE m.id

\* Dispatch with a fallback: an id that is no key resolves the oldest request.
DispatchFallback(m) ==
  IF m.shape # "object" \/ m.id = Absent THEN Absent
  ELSE IF m.id \notin pending_requests THEN OldestWaiting
  ELSE IF fut[m.id].state # "pending" THEN Absent
  ELSE m.id

\* The body of the receive loop for one frame: the id whose future gets the
\* frame's data as its result (Absent for none).
\*   msg.type != TEXT              nothing is done with the frame
\*   json.loads raises             caught by except Exception, logged
\*   data is no dict               data.get raises, caught, logged
\*   req_id falsy or not a key     nothing
\*   the future is done            nothing
\*   else                          set_result(data)
Dispatch(m) ==
  IF m.shape = "binary" THEN Absent
  ELSE IF m.shape \in {"unparsable", "nonobject"} THEN Absent
  ELSE IF m.id = Absent \/ m.id \notin pending_requests THEN Absent
  ELSE IF fut[m.id].state # "pending" THEN Absent
  ELSE m.id

\* Future.set_result(data)
SetResult(f, id, data) ==
  [f EXCEPT ![id] = [state |-> "result", data |-> data]]

\* Future.cancel() on every future of the table that is not done.
CancelAll(f, table) ==
  [r \in ReqIds |->
     IF r \in table /\ f[r].state = "pending"
     THEN [f[r] EXCEPT !.state = "cancelled"]
     ELSE f[r]]

\* The remote side can name an id only after the request went out to it; the
\* id of a call that has returned is in no table, whether it went out or not.
Deliverable(m) ==
  m.id \in ReqIds => (sentOn[m.id] # None \/ pc[m.id] = "returned")

\* A request is live while its id is a key of the table and its future is not
\* done.
Live(id) == id \in pending_requests /\ fut[id].state = "pending"

\* What a frame is to the table when it arrives:
\*   "malformed"  text that is no JSON, JSON that is no object, or an object
\*                with neither an id nor a command
\*   "register"   the command {type: "register_domain", domain}
\*   "unmatched"  an object whose id is no key of the table
\*   "duplicate"  an object whose id is a key, the future being done
\*   "crossed"    a reply to a live request, received on a connection other
\*                than the one the request went out on
\*   ""           any other reply to a live request, or a frame that is not text
Classify(ws, m) ==
  IF m.shape = "binary" THEN ""
  ELSE IF m.shape # "object" THEN "malformed"
  ELSE IF m.type = "register_domain" THEN "register"
  ELSE IF m.id = Absent THEN "malformed"
  ELSE IF m.id \notin pending_requests THEN "unmatched"
  ELSE IF fut[m.id].state # "pending" THEN "duplicate"
  ELSE IF sentOn[m.id] # ws THEN "crossed"
  ELSE ""

\* A WebSocket is accepted: ws.prepare, then self.control_ws = ws.
Connect ==
  /\ UNCHANGED hostsVars
  /\ nextWs < MaxWs
  /\ nextWs' = nextWs + 1
  /\ wsOpen' = wsOpen \cup {nextWs + 1}
  /\ control_ws' = nextWs + 1
  /\ last' = ""
  /\ UNCHANGED <<pending_requests, fut, pc, sentOn, resp, domains>>

\* OnMessage without the try/except of lines 78-85: what json.loads or data.get
\* raises leaves the loop, and the finally block runs.
OnMessageNoCatch(ws, m) ==
  /\ UNCHANGED hostsVars
  /\ ws \in wsOpen
  /\ Deliverable(m)
  /\ last' = Classify(ws, m)
  /\ IF m.shape \in {"unparsable", "nonobject"}
     THEN /\ wsOpen' = wsOpen \ {ws}
          /\ control_ws' = None
          /\ fut' = CancelAll(fut, pending_requests)
          /\ pending_requests' = {}
          /\ UNCHANGED <<pc, sentOn, resp, nextWs, domains>>
     ELSE /\ LET target == Dispatch(m) IN
               fut' = IF target = Absent THEN fut ELSE SetResult(fut, target, m)
          /\ UNCHANGED <<control_ws, pending_requests, pc, sentOn, resp, wsOpen, nextWs,
                         domains>>

\* One iteration of `async for msg in ws` on connection ws.
OnMessage(ws, m) ==
  /\ UNCHANGED hostsVars
  /\ ws \in wsOpen
  /\ Deliverable(m)
  /\ LET target == Dispatch(m) IN
       fut' = IF target = Absent THEN fut ELSE SetResult(fut, target, m)
  /\ last' = Classify(ws, m)
  /\ UNCHANGED <<control_ws, pending_requests, pc, sentOn, resp, wsOpen, nextWs, domains>>

\* A finally block that clears the slot and cancels the futures but leaves
\* the table to the calls' own pops.
DisconnectKeepsTable(ws) ==
  /\ UNCHANGED hostsVars
  /\ ws \in wsOpen
  /\ wsOpen' = wsOpen \ {ws}
  /\ control_ws' = None
  /\ fut' = CancelAll(fut, pending_requests)
  /\ last' = ""
  /\ UNCHANGED <<pending_requests, pc, sentOn, resp, nextWs, domains>>

\* The receive loop of connection ws ends; the finally block runs.
Disconnect(ws) ==
  /\ UNCHANGED hostsVars
  /\ ws \in wsOpen
  /\ wsOpen' = wsOpen \ {ws}
  /\ control_ws' = None
  /\ fut' = CancelAll(fut, pending_requests)
  /\ pending_requests' = {}
  /\ last' = ""
  /\ UNCHANGED <<pc, sentOn, resp, nextWs, domains>>

(* --------------------------- HostsManager ----------------------------- *)

\* The record of a HostsManager call for hlast.
Call(op, arg, ret) ==
  [op |-> op, arg |-> arg, ret |-> ret, again |-> hlast.op = op /\ hlast.arg = arg]

\* How install() ends: "denied" by PermissionError at open(..., 'w'), before
\* the file is touched; "error" by the IndexError of new_lines[-1]; else "ok".
InstallOutcome(doms) ==
  IF ~writable THEN "denied"
  ELSE IF InstallWrite(file, doms).ok THEN "ok" ELSE "error"

\* The body of install() for the domain set doms, up to the call of
\* flush_dns().  Only the path that ends "ok" reaches installed = True and
\* then waits in flush_dns(), where subprocess.run blocks; the two except
\* branches only log and install() returns.
InstallBody(doms) ==
  IF ~writable
  THEN /\ UNCHANGED <<file, installed>>
       /\ phase' = "serving"
  ELSE /\ file' = InstallWrite(file, doms).text
       /\ installed' = (installed \/ InstallWrite(file, doms).ok)
       /\ phase' = IF InstallWrite(file, doms).ok THEN "install_flush" ELSE "serving"

\* install(), called by main() first and by start() later.
install ==
  /\ phase \in {"main", "serving"}
  /\ InstallBody(domains)
  /\ hlast' = Call("install", "", InstallOutcome(domains))
  /\ before' = file
  /\ UNCHANGED <<registered, writable, domains>>
  /\ UNCHANGED proxyVars

\* add_domain(d).  The value recorded is the one the call returns once the
\* install() inside it has returned.
add_domain(d) ==
  /\ phase = "serving"
  /\ IF d \in domains
     THEN /\ hlast' = Call("add_domain", d, "False")
          /\ UNCHANGED <<domains, file, installed, phase>>
     ELSE /\ domains' = domains \cup {d}
          /\ InstallBody(domains \cup {d})
          /\ hlast' = Call("add_domain", d, "True")
  /\ before' = file
  /\ UNCHANGED <<registered, writable>>
  /\ UNCHANGED proxyVars

\* flush_dns() returns inside install(): remove() is registered with atexit
\* and install() returns.
InstallReturn ==
  /\ phase = "install_flush"
  /\ registered' = TRUE
  /\ phase' = "serving"
  /\ UNCHANGED <<file, installed, writable, domains, hlast, before>>
  /\ UNCHANGED proxyVars

\* The body of remove(silent), up to the call of flush_dns(): when the file
\* was rewritten the call waits in flush_dns() (phase flush) with installed
\* as it was, else it is over (phase done).  The write is refused when the
\* file cannot be opened for writing: except Exception: pass, and installed
\* stays.
RemoveBody(silent, flush, done) ==
  IF ~installed /\ silent
  THEN /\ UNCHANGED <<file, installed>>
       /\ phase' = done
  ELSE IF Found(readlines(file))
       THEN IF writable
            THEN /\ file' = writelines(RemoveKept(readlines(file)))
                 /\ phase' = flush
                 /\ UNCHANGED installed
            ELSE /\ UNCHANGED <<file, installed>>
                 /\ phase' = done
       ELSE /\ installed' = FALSE
            /\ phase' = done
            /\ UNCHANGED file

\* remove(silent)
remove(silent) ==
  /\ phase = "serving"
  /\ RemoveBody(silent, "remove_flush", "serving")
  /\ hlast' = Call("remove", IF silent THEN "silent" ELSE "", "")
  /\ before' = file
  /\ UNCHANGED <<registered, writable, domains>>
  /\ UNCHANGED proxyVars

\* flush_dns() returns inside remove(): installed = False, and remove()
\* returns, to its caller or to the interpreter that is exiting.
RemoveReturn ==
  /\ phase \in {"remove_flush", "exit_flush"}
  /\ installed' = FALSE
  /\ phase' = IF phase = "remove_flush" THEN "serving" ELSE "exited"
  /\ UNCHANGED <<file, registered, writable, domains, hlast, before>>
  /\ UNCHANGED proxyVars

\* The permission of the process on the hosts file changes.
Chmod ==
  /\ phase # "exited"
  /\ writable' = ~writable
  /\ hlast' = Call("chmod", "", "")
  /\ before' = file
  /\ UNCHANGED <<file, installed, registered, phase, domains>>
  /\ UNCHANGED proxyVars

\* main() returns through except KeyboardInterrupt: Ctrl+C while serving, or
\* while a call waits in flush_dns(), which no except clause of install() or
\* remove() catches.  The interpreter runs the atexit callbacks: remove(), if
\* it was registered.
AtExit ==
  /\ phase \in {"serving", "install_flush", "remove_flush"}
  /\ IF registered
     THEN RemoveBody(FALSE, "exit_flush", "exited")
     ELSE /\ UNCHANGED <<file, installed>>
          /\ phase' = "exited"
  /\ hlast' = Call("exit", "", IF registered THEN "remove" ELSE "")
  /\ before' = file
  /\ UNCHANGED <<registered, writable, domains>>
  /\ UNCHANGED proxyVars

\* Ctrl+C again while the remove() run by atexit waits in flush_dns(): the
\* callback ends with KeyboardInterrupt, before installed = False.
AtExitInterrupt ==
  /\ phase = "exit_flush"
  /\ phase' = "exited"
  /\ UNCHANGED <<file, installed, registered, writable, domains, hlast, before>>
  /\ UNCHANGED proxyVars

(* --------------------------- specification ---------------------------- *)

Next ==
  \/ \E r \in ReqIds, host \in Hosts, path \in Paths : Submit(r, host, path)
  \/ \E r \in ReqIds : ReadBody(r)
  \/ \E r \in ReqIds : SendDone(r)
  \/ \E r \in ReqIds, e \in SendErrors : SendFail(r, e)
  \/ \E r \in ReqIds : Cancel(r)
  \/ \E r \in ReqIds : Resume(r)
  \/ Connect
  \/ \E ws \in WsIds, m \in Msgs : OnMessage(ws, m)
  \/ \E ws \in WsIds : Disconnect(ws)

Spec == Init /\ [][Next]_vars

\* The event loop runs every task that is ready: a call suspended in
\* `await fut` is woken once its future is done.  Nothing obliges a client to
\* finish its body, send_json to complete, or the remote side to connect, to
\* send or to disconnect.
FairSpec == Spec /\ \A r \in ReqIds : WF_vars(Resume(r))

\* A HostsManager of a process that starts: any initial hosts file, writable
\* or not.
HostsInit ==
  /\ ProxyInit
  /\ file \in InitialFiles
  /\ installed = FALSE
  /\ registered = FALSE
  /\ writable \in BOOLEAN
  /\ phase = "main"
  /\ hlast = NoCall
  /\ before = <<>>

HostsNext ==
  \/ install
  \/ \E d \in CommandDomains : add_domain(d)
  \/ \E silent \in BOOLEAN : remove(silent)
  \/ InstallReturn
  \/ RemoveReturn
  \/ Chmod
  \/ AtExit
  \/ AtExitInterrupt

HostsSpec == HostsInit /\ [][HostsNext]_vars

(* ------------------------------ claims -------------------------------- *)

\* Everything but the ghost variable last.
state == <<control_ws, pending_requests, fut, pc, sentOn, resp, wsOpen, nextWs, domains>>

\* handle_request call r returns in this step, from inside its try block.
Returns(r) == pc[r] \in {"reading", "sending", "waiting"} /\ pc'[r] = "returned"

\* The 500 responses of handle_request.
ProxyErrors == {ProxyErrorResponse(e) : e \in {NoSendJson} \cup SendErrors}

\* C1: replies are matched by correlation id whatever their order.  A future
\* only ever holds a reply that carries the id of its own request; a call that
\* waits on a future holding a reply returns the headers and body of that
\* reply, and its status when it has one, or else the 504 of its own task
\* being cancelled; and a call returns no reply's payload but the one its own
\* future holds (the 504 or a 500 otherwise).
C1_RepliesMatchedById ==
  [][\A r \in ReqIds :
       /\ fut'[r].state = "result" => fut'[r].data.id = r
       /\ Returns(r) =>
            IF /\ fut[r].state = "result"
               /\ resp'[r] # CancelledResponse
               /\ (pc[r] = "waiting" \/ resp'[r] \notin ProxyErrors)
            THEN /\ fut[r].data.id = r
                 /\ resp'[r].headers = fut[r].data.headers
                 /\ resp'[r].body = fut[r].data.body
                 /\ fut[r].data.status # Absent =>
                      resp'[r].status = fut[r].data.status
            ELSE resp'[r] \in {CancelledResponse} \cup ProxyErrors]_vars

\* Two calls in flight together: the later one has returned its reply while
\* the earlier one still waits for its own.
C1_Witness ==
  /\ MaxReq >= 2
  /\ pc[1] = "waiting" /\ fut[1].state = "pending"
  /\ pc[2] = "returned"
  /\ resp[2] = [status |-> 404, headers |-> "h", body |-> "a"]

\* C2: a request is resolved once.  A future that holds a result or is
\* cancelled keeps exactly that until its call returns, whatever replies
\* (duplicates included) and disconnects follow; the call waiting on it
\* returns the outcome the future holds (its reply, or the 504 when it was
\* cancelled) or the 504 of its own task being cancelled; and a call that has
\* returned stays returned with the response it gave.
C2_ResolvedOnce ==
  [][\A r \in ReqIds :
       /\ fut[r].state \in {"result", "cancelled"} =>
            (fut'[r] = fut[r] \/ Returns(r))
       /\ (Returns(r) /\ pc[r] = "waiting" /\ resp'[r] # CancelledResponse) =>
            resp'[r] = IF fut[r].state = "cancelled"
                       THEN CancelledResponse
                       ELSE [status |-> IF fut[r].data.status = Absent
                                        THEN 200 ELSE fut[r].data.status,
                             headers |-> fut[r].data.headers,
                             body |-> fut[r].data.body]
       /\ pc[r] = "returned" =>
            (pc'[r] = "returned" /\ resp'[r] = resp[r] /\ fut'[r] = fut[r])]_vars

\* A second reply met a future that already held the first.
C2_Witness ==
  /\ last = "duplicate"
  /\ \E r \in pending_requests : fut[r].state = "result" /\ pc[r] # "returned"

\* C3: when a connection's handler ends, the table is emptied and every call
\* whose future was cancelled by it returns the 504 of a lost channel,
\* wherever the call was.
C3_DisconnectReturnsChannelLost ==
  [][/\ (wsOpen' # wsOpen /\ nextWs' = nextWs) => pending_requests' = {}
     /\ \A r \in ReqIds :
          (Returns(r) /\ fut[r].state = "cancelled") =>
             resp'[r] = CancelledResponse]_vars

\* C4: every call that waits for a reply returns in the end.
C4_EverySubmitReturns ==
  \A r \in ReqIds : (pc[r] = "waiting") ~> (pc[r] = "returned")

\* The Host headers of Hosts that name a .paper domain or the local machine.
LocalOrPaperHosts ==
  { <<"blog", ".paper">>, <<"localhost", ":8080">>, <<"127.0.0.1", ":8080">> }

\* C5, as stated: a call made while no connection is installed returns 503 at
\* once and leaves the table, the futures and the connections alone.
C5_NoChannelIs503 ==
  [][\A r \in ReqIds :
       (pc[r] = "idle" /\ pc'[r] # "idle" /\ control_ws = None) =>
          /\ pc'[r] = "returned"
          /\ resp'[r] = NotConnectedResponse
          /\ UNCHANGED <<pending_requests, fut, sentOn>>]_vars

\* C5, amended: a call made while no connection is installed returns at once
\* and leaves the table, the futures and the connections alone; it returns 503
\* unless it asks for "/" under a Host that is neither a .paper name nor the
\* local machine, which gets the 200 of the health check.
C5_NoChannelIs503OrHealth ==
  [][\A r \in ReqIds :
       (pc[r] = "idle" /\ pc'[r] # "idle" /\ control_ws = None) =>
          /\ pc'[r] = "returned"
          /\ UNCHANGED <<pending_requests, fut, sentOn>>
          /\ \A host \in Hosts, path \in Paths :
               Submit(r, host, path) =>
                 resp'[r] = IF path = "/" /\ host \notin LocalOrPaperHosts
                            THEN HealthResponse
                            ELSE NotConnectedResponse]_vars

\* A call got the 503 while no connection was installed.
C5_Witness ==
  /\ control_ws = None
  /\ pending_requests = {}
  /\ \E r \in ReqIds : pc[r] = "returned" /\ resp[r] = NotConnectedResponse

\* C6: when a connection is accepted while another is installed, every live
\* request that went out on the installed one is cancelled and leaves the
\* table.
C6_ReplacedChannelCancels ==
  [][(nextWs' = nextWs + 1 /\ control_ws # None) =>
       \A r \in ReqIds :
         (Live(r) /\ sentOn[r] = control_ws) =>
            (r \notin pending_requests' /\ fut'[r].state = "cancelled")]_vars

\* C7: a reply received on a connection other than the one its request went
\* out on fulfils nothing: every future keeps its state.
C7_ReplyOnSameChannel ==
  [][last' = "crossed" => fut' = fut]_vars

\* C8: a reply whose id matches no live request (no key of the table, or a
\* key whose future is done) changes nothing: not the table, not a future,
\* not a call, not a connection.
C8_UnmatchedReplyIsNoOp ==
  [][last' \in {"unmatched", "duplicate"} => UNCHANGED state]_vars

\* An unmatched reply was handled while another request was live.
C8_Witness ==
  /\ last = "unmatched"
  /\ \E r \in ReqIds : Live(r) /\ pc[r] = "waiting"

\* C9: a register_domain command puts its domain in the domain set and
\* leaves the table alone.
C9_RegisterDomainAdds ==
  [][last' = "register" =>
       \A ws \in WsIds, m \in CommandMsgs :
         OnMessage(ws, m) => (m.domain \in domains' /\ pending_requests' = pending_requests)]_vars

\* A reply that lacks its id or its status.
MissingFields(m) ==
  m.shape = "object" /\ m.type = "" /\ (m.id = Absent \/ m.status = Absent)

\* C10, as stated: unparsable text, JSON that is no object and a reply that
\* lacks a required field (its status, say) are ignored.
C10_MalformedIgnored ==
  [][\A ws \in WsIds, m \in Msgs :
       ((m.shape \in {"unparsable", "nonobject"} \/ MissingFields(m))
          /\ OnMessage(ws, m)) => UNCHANGED state]_vars

\* C10, amended: unparsable text, JSON that is no object and an object that
\* has neither an id nor a command are ignored: no future, table entry, call
\* or connection changes, and the receive loop goes on.
C10_UnusableFrameIgnored ==
  [][last' = "malformed" => UNCHANGED state]_vars

\* A malformed frame was handled on an open connection with a live request.
C10_Witness ==
  /\ last = "malformed"
  /\ control_ws \in wsOpen
  /\ \E r \in ReqIds : Live(r)

\* ids of the handle_request calls that are past the table insert and have
\* neither returned nor been cancelled.
InFlight == {r \in ReqIds : pc[r] \in {"reading", "sending", "waiting"}}

\* C11: no PendingRequest is leaked.  Every id in the pending-request table
\* belongs to a call that has not returned; a call that has returned, with
\* whatever response, has no entry; with no call in flight the table is empty.
C11_NoLeak ==
  /\ pending_requests \subseteq InFlight
  /\ \A r \in ReqIds : pc[r] = "returned" => r \notin pending_requests
  /\ InFlight = {} => pending_requests = {}

\* C18: whenever the active-channel slot is empty the pending-request table is
\* empty, and no step registers a request while the slot is empty.
C18_NoChannelNoPending ==
  control_ws = None => pending_requests = {}

\* A teardown has emptied the slot and the table under a call that was
\* waiting: its future is cancelled and the call has not run yet.
C18_Witness ==
  /\ control_ws = None
  /\ pending_requests = {}
  /\ \E r \in ReqIds : pc[r] = "waiting" /\ fut[r].state = "cancelled"

\* C19: the slot holds the most recently connected channel while that channel
\* is open.  When a channel that a newer connection has superseded ends, the
\* slot, the table and the futures stay as they are.
C19_SupersededDisconnectHarmless ==
  [][\A ws \in wsOpen :
       (ws \notin wsOpen' /\ ws # control_ws /\ control_ws \in wsOpen)
         => (control_ws' = control_ws /\ pending_requests' = pending_requests
             /\ fut' = fut)]_vars

(* ------------------------ claims: hosts file -------------------------- *)

IsStart(line) == Contains(PAPER_MARKER_START, line)
IsEnd(line) == Contains(PAPER_MARKER_END, line)
IsMarker(line) == IsStart(line) \/ IsEnd(line)

\* Line i belongs to a managed block: it is a sentinel line or lies between
\* a start sentinel and the end sentinel that follows it.
InBlock(lines, i) ==
  \E j \in 1..i, k \in i..Len(lines) :
    /\ j < k
    /\ IsStart(lines[j]) /\ IsEnd(lines[k]) /\ ~IsStart(lines[k])
    /\ \A m \in (j + 1)..(k - 1) : ~IsMarker(lines[m])

\* Every sentinel line of the text belongs to a managed block.
WellFormed(lines) == \A i \in 1..Len(lines) : IsMarker(lines[i]) => InBlock(lines, i)

\* The text holds a managed block.
HasBlock(text) == \E i \in 1..Len(splitlines(text)) : InBlock(splitlines(text), i)

\* The lines from line i on that lie outside every managed block.
RECURSIVE OutsideFrom(_, _)
OutsideFrom(lines, i) ==
  IF i > Len(lines) THEN <<>>
  ELSE (IF InBlock(lines, i) THEN <<>> ELSE <<lines[i]>>) \o OutsideFrom(lines, i + 1)

\* A text with its last line ended.
Normalize(text) ==
  IF text = <<>> \/ text[Len(text)] = NL THEN text ELSE text \o <<NL>>

\* The process is where a call of the HostsManager can begin: in none of its
\* methods.
Calling == phase \in {"main", "serving"}

\* The last call was install(), by itself or inside add_domain().
Installing ==
  hlast.op = "install" \/ (hlast.op = "add_domain" /\ hlast.ret = "True")

\* C12: install() is idempotent.  After the second of two install() calls in
\* a row (the domain set is the same for both), the hosts file is what the
\* first call left, whatever the initial content was.
C12_InstallIdempotent ==
  (hlast.op = "install" /\ hlast.again) => file = before

\* install() ran twice in a row on a file that already held a block, and
\* wrote it both times.
C12_Witness ==
  /\ hlast.op = "install" /\ hlast.again /\ hlast.ret = "ok"
  /\ HasBlock(before)
  /\ file = before

\* C13: after an install(), by itself or inside add_domain(), on a writable
\* hosts file, the file holds the managed block exactly once, the lines
\* between the sentinels are the "127.0.0.1 <domain>" lines of the domain set
\* in sorted order, and the lines that were outside the block are all there,
\* in their order.
C13_OneSortedBlockRestKept ==
  (Installing /\ writable) =>
    LET L == splitlines(file)
        starts == {i \in 1..Len(L) : IsStart(L[i])}
        ends == {i \in 1..Len(L) : IsEnd(L[i])}
    IN /\ Cardinality(starts) = 1
       /\ Cardinality(ends) = 1
       /\ \A b \in starts, e \in ends :
            /\ b < e
            /\ SubSeq(L, b + 1, e - 1)
                 = [k \in 1..Len(sorted(domains)) |-> EntryLine(sorted(domains)[k]) \o <<NL>>]
            /\ WellFormed(splitlines(before)) =>
                 writelines(SubSeq(L, 1, b - 1) \o SubSeq(L, e + 1, Len(L)))
                   = Normalize(writelines(OutsideFrom(splitlines(before), 1)))

\* C14: remove() deletes the managed block (the two sentinel lines and every
\* line between them) and nothing else, and leaves a file that holds no
\* managed block as it is; right after an install() on a file without
\* sentinels it gives that file back, up to the "\n" that ends its last line.
\* (Stated for a file the process may write.)
C14_RemoveDeletesBlockOnly ==
  [][(Calling /\ hlast'.op = "remove" /\ hlast'.arg = "" /\ writable) =>
       /\ ~HasBlock(file) => file' = file
       /\ file' = writelines(OutsideFrom(splitlines(file), 1))
       /\ (hlast.op = "install"
             /\ \A i \in 1..Len(splitlines(before)) : ~IsMarker(splitlines(before)[i]))
            => Normalize(file') = Normalize(before)]_vars

\* Number of lines of the text, inside a managed block, that are the entry
\* of domain d.
EntryCount(text, d) ==
  Cardinality({i \in 1..Len(splitlines(text)) :
                 /\ InBlock(splitlines(text), i)
                 /\ splitlines(text)[i] = EntryLine(d) \o <<NL>>})

\* C15: add_domain(x) returns True exactly when x was not in the domain set;
\* a second add_domain(x) right after one that returned True returns False and
\* changes neither the domain set nor the hosts file, and the block of a
\* writable hosts file then holds the line of x exactly once.
C15_AddDomainOnce ==
  [][(Calling /\ hlast'.op = "add_domain") =>
       /\ (hlast'.ret = "True") <=> (hlast'.arg \notin domains)
       /\ (hlast.op = "add_domain" /\ hlast.ret = "True" /\ hlast'.arg = hlast.arg) =>
            /\ hlast'.ret = "False"
            /\ domains' = domains
            /\ file' = file
            /\ writable => EntryCount(file', hlast'.arg) = 1]_vars

\* C16: an install() whose write is refused with permission-denied leaves
\* the hosts file as it was and installed = False, whatever installed was.
C16_DeniedInstallWarns ==
  (hlast.op = "install" /\ hlast.ret = "denied") =>
    (file = before /\ installed = FALSE)

\* C17: when the process is gone, remove() has been run on its way out, and
\* a hosts file that can be written holds no managed block.
C17_NoBlockAfterExit ==
  phase = "exited" =>
    /\ hlast.ret = "remove"
    /\ writable => ~HasBlock(file)

\* The complete new content install() is to write over the text.
NewContent(text, doms) ==
  Normalize(writelines(InstallKept(splitlines(text)))) \o generate_block(doms)

\* C20: install() rewrites the hosts file atomically: however the call ends,
\* the file holds its complete previous content or the complete new content.
C20_InstallAtomic ==
  Installing => (file = before \/ file = NewContent(before, domains))

====
